---- MODULE Spec2Model ----
(***************************************************************************)
(* A model of the lead enricher (src/main.py): the text sanitizer, the     *)
(* offer compressor, the sentence matcher, the site crawler with its       *)
(* bundle assembler, and the webhook handler's output section.             *)
(*                                                                         *)
(* Text is a TLA+ string; a position i of a string s is the index of the   *)
(* character SubSeq(s, i, i), and a match is a pair <<start, end>> where   *)
(* end is the position after the last matched character.  Regular          *)
(* expressions are small syntax trees interpreted by Ends, which lists the *)
(* ends of every way a pattern can match at a position in the order        *)
(* Python's backtracking matcher tries them, so its head is the match      *)
(* Python reports.  The two non-ASCII characters of the source are written *)
(* with ASCII stand-ins: BULLET for U+2022 and ENYE for U+00F1.            *)
(***************************************************************************)
EXTENDS Naturals, Sequences, FiniteSets, TLC

\* ------------------------------------------------------------ characters
DigitCh == {"0", "1", "2", "3", "4", "5", "6", "7", "8", "9"}
LowerCh == {"a", "b", "c", "d", "e", "f", "g", "h", "i", "j", "k", "l", "m",
            "n", "o", "p", "q", "r", "s", "t", "u", "v", "w", "x", "y", "z"}
UpperCh == {"A", "B", "C", "D", "E", "F", "G", "H", "I", "J", "K", "L", "M",
            "N", "O", "P", "Q", "R", "S", "T", "U", "V", "W", "X", "Y", "Z"}
BULLET == "^"
ENYE == "~"
\* \s, \w of Python's re on str
SpaceCh == {" ", "\t", "\n", "\r", "\f"}
WordCh == LowerCh \cup UpperCh \cup DigitCh \cup {"_", ENYE}

UpperSeq == "ABCDEFGHIJKLMNOPQRSTUVWXYZ"
LowerSeq == "abcdefghijklmnopqrstuvwxyz"
\* re.IGNORECASE folds the case of the text's character
Lower(c) ==
    IF c \in UpperCh
    THEN LET k == CHOOSE j \in 1..Len(UpperSeq) : SubSeq(UpperSeq, j, j) = c
         IN SubSeq(LowerSeq, k, k)
    ELSE c

\* The({e : v \in {x}}) is e with v bound to the value of x, x evaluated once
The(S) == CHOOSE r \in S : TRUE

At(s, i) == SubSeq(s, i, i)
From(s, i) == SubSeq(s, i, Len(s))

\* ------------------------------------------------------------ regex trees
Node(t, set, xs, lo, hi) == [t |-> t, set |-> set, xs |-> xs, lo |-> lo, hi |-> hi]
In(S) == Node("in", S, <<>>, 0, 0)            \* one character of S
NotIn(S) == Node("notin", S, <<>>, 0, 0)      \* one character not in S
WB == Node("b", {}, <<>>, 0, 0)               \* \b
EOS == Node("end", {}, <<>>, 0, 0)            \* $
Behind(S) == Node("behind", S, <<>>, 0, 0)    \* (?<=[S])
Cat(xs) == Node("cat", {}, xs, 0, 0)          \* concatenation
Alt(xs) == Node("alt", {}, xs, 0, 0)          \* a|b, tried left to right
Rep(x, lo, hi) == Node("rep", {}, <<x>>, lo, hi)   \* x{lo,hi}, greedy
Many(x, lo) == Node("many", x.set, <<x>>, lo, 0)   \* x{lo,} of a class x, greedy
Opt(x) == Rep(x, 0, 1)
Lit(w) == Cat([k \in 1..Len(w) |-> In({At(w, k)})])
Word(w) == Cat(<<WB, Lit(w), WB>>)             \* \bw\b
Sp0 == Many(In(SpaceCh), 0)                    \* \s*
Sp1 == Many(In(SpaceCh), 1)                    \* \s+
D == In(DigitCh)                               \* \d
W1 == Many(In(WordCh), 1)                      \* \w+

IsWordAt(s, i) == i >= 1 /\ i <= Len(s) /\ At(s, i) \in WordCh

\* whether the one-character node x (In or NotIn) matches the character c
ClassHas(x, ic, c) ==
    IF x.t = "in" THEN (IF ic THEN Lower(c) ELSE c) \in x.set ELSE c \notin x.set

\* the position after the longest run of characters of class x from i on
RunEnd(x, ic, s, i) ==
    IF \A j \in i..Len(s) : ClassHas(x, ic, At(s, j)) THEN Len(s) + 1
    ELSE CHOOSE e \in i..Len(s) :
           /\ ~ClassHas(x, ic, At(s, e))
           /\ \A j \in i..(e - 1) : ClassHas(x, ic, At(s, j))

\* a function on 1..n as a tuple
AsSeq(f) == SubSeq(f, 1, Len(f))

\* the elements r[1], r[2], ... of the j-th of several sequences, tagged <<j, b, r[b]>>,
\* and the sequence a set of tagged elements stands for
Tagged(j, r) == {<<j, b, r[b]>> : b \in 1..Len(r)}
TagBefore(q, p) == q[1] < p[1] \/ (q[1] = p[1] /\ q[2] < p[2])
InOrder(S) ==
    AsSeq([m \in 1..Cardinality(S) |->
             (CHOOSE p \in S : Cardinality({q \in S : TagBefore(q, p)}) = m - 1)[3]])

RECURSIVE Ends(_, _, _, _)
RECURSIVE CatEnds(_, _, _, _, _)
RECURSIVE CatFrom(_, _, _, _, _)
RECURSIVE AltEnds(_, _, _, _, _)
RECURSIVE RepEnds(_, _, _, _, _, _, _)
RECURSIVE RepFrom(_, _, _, _, _, _, _, _, _)

\* The ends of the matches of node n at position i of s, most preferred first.
Ends(n, ic, s, i) ==
    CASE n.t \in {"in", "notin"} ->
           IF i <= Len(s) /\ ClassHas(n, ic, At(s, i)) THEN <<i + 1>> ELSE <<>>
      [] n.t = "b" ->
           IF IsWordAt(s, i - 1) # IsWordAt(s, i) THEN <<i>> ELSE <<>>
      [] n.t = "end" ->
           IF i = Len(s) + 1 \/ (i = Len(s) /\ At(s, i) = "\n") THEN <<i>> ELSE <<>>
      [] n.t = "behind" ->
           IF i > 1 /\ At(s, i - 1) \in n.set THEN <<i>> ELSE <<>>
      [] n.t = "cat" -> CatEnds(n.xs, 1, ic, s, i)
      [] n.t = "alt" -> AltEnds(n.xs, 1, ic, s, i)
      [] n.t = "rep" -> RepEnds(n.xs[1], n.lo, n.hi, ic, s, i, 0)
      [] n.t = "many" ->
           \* greedy: the longest run first, then one character less, down to lo
           The({ IF e - i < n.lo THEN <<>>
                 ELSE AsSeq([k \in 1..(e - i - n.lo + 1) |-> e - k + 1])
               : e \in {RunEnd(n.xs[1], ic, s, i)} })

\* the k-th node of xs and the nodes after it, from position i
CatEnds(xs, k, ic, s, i) ==
    IF k > Len(xs) THEN <<i>>
    ELSE IF k = Len(xs) THEN Ends(xs[k], ic, s, i)
    ELSE The({ CatFrom(xs, k + 1, ic, s, es)
             : es \in {Ends(xs[k], ic, s, i)} })

\* the nodes of xs from the k-th on, from each of the positions es in turn:
\* the ends found from es[1], then those found from es[2], and so on
CatFrom(xs, k, ic, s, es) ==
    IF Len(es) = 0 THEN <<>>
    ELSE IF Len(es) = 1 THEN CatEnds(xs, k, ic, s, es[1])
    ELSE InOrder(UNION {Tagged(j, CatEnds(xs, k, ic, s, es[j])) : j \in 1..Len(es)})

AltEnds(xs, k, ic, s, i) ==
    IF k > Len(xs) THEN <<>>
    ELSE The({ here \o AltEnds(xs, k + 1, ic, s, i)
             : here \in {Ends(xs[k], ic, s, i)} })

\* greedy: one more repetition is tried before stopping after count of them
RepEnds(x, lo, hi, ic, s, i, count) ==
    The({ RepFrom(x, lo, hi, ic, s, i, count, es, 1)
          \o (IF count >= lo THEN <<i>> ELSE <<>>)
        : es \in {IF count >= hi THEN <<>> ELSE Ends(x, ic, s, i)} })

RepFrom(x, lo, hi, ic, s, i, count, es, j) ==
    IF j > Len(es) THEN <<>>
    ELSE The({ here \o RepFrom(x, lo, hi, ic, s, i, count, es, j + 1)
             : here \in {IF es[j] > i THEN RepEnds(x, lo, hi, ic, s, es[j], count + 1) ELSE <<>>} })

\* re.match at position i: the end of the match, 0 when there is none
MatchAt(re, ic, s, i) ==
    The({ IF es = <<>> THEN 0 ELSE es[1]
        : es \in {Ends(re, ic, s, i)} })

\* re.search from position pos on: <<start, end>>, or <<0, 0>>
Search(re, ic, s, pos) ==
    The({ IF starts = {} THEN <<0, 0>>
          ELSE The({ <<a, MatchAt(re, ic, s, a)>>
                   : a \in {CHOOSE i \in starts : \A j \in starts : i <= j} })
        : starts \in {{i \in pos..(Len(s) + 1) : MatchAt(re, ic, s, i) # 0}} })

Found(re, ic, s) == \E i \in 1..(Len(s) + 1) : MatchAt(re, ic, s, i) # 0

\* The matches re.finditer(re, s) yields: leftmost first, none overlapping.
\* No pattern of this program matches the empty string. ends[i] is the end of
\* the match at i; ScanFrom scans the starts lo..hi-1 from position pos on and
\* yields the matches it takes and the position it ends at.
RECURSIVE ScanFrom(_, _, _, _)
ScanFrom(ends, pos, lo, hi) ==
    IF hi - lo = 1
    THEN IF pos <= lo /\ ends[lo] # 0 THEN <<(<<(<<lo, ends[lo]>>)>>), ends[lo]>>
         ELSE <<(<<>>), pos>>
    ELSE The({ The({ <<left[1] \o right[1], right[2]>>
               : right \in {ScanFrom(ends, left[2], (lo + hi) \div 2, hi)} })
             : left \in {ScanFrom(ends, pos, lo, (lo + hi) \div 2)} })

Matches(re, ic, s) ==
    The({ ScanFrom(ends, 1, 1, Len(s) + 2)[1]
        : ends \in {AsSeq([i \in 1..(Len(s) + 1) |-> MatchAt(re, ic, s, i)])} })

\* the strings ws[lo..hi], one after the other
RECURSIVE ConcatRange(_, _, _)
ConcatRange(ws, lo, hi) ==
    IF lo > hi THEN "" ELSE IF lo = hi THEN ws[lo]
    ELSE The({ left \o ConcatRange(ws, (lo + hi) \div 2 + 1, hi)
             : left \in {ConcatRange(ws, lo, (lo + hi) \div 2)} })

\* the pieces of s between the matches ms
Pieces(s, ms) ==
    AsSeq([k \in 1..(Len(ms) + 1) |->
             SubSeq(s, IF k = 1 THEN 1 ELSE ms[k - 1][2],
                       IF k > Len(ms) THEN Len(s) ELSE ms[k][1] - 1)])

\* re.sub(re, repl, s)
Sub(re, ic, repl, s) ==
    IF s = "" THEN ""
    ELSE The({ ConcatRange(AsSeq([k \in 1..Len(ps) |-> IF k = 1 THEN ps[k] ELSE repl \o ps[k]]),
               1, Len(ps))
             : ps \in {Pieces(s, Matches(re, ic, s))} })

\* re.split(re, s): the pieces of s between the matches
Split(re, ic, s) == Pieces(s, Matches(re, ic, s))

\* str.strip(), str.rstrip()
LStripPos(s) ==
    IF \A i \in 1..Len(s) : At(s, i) \in SpaceCh THEN Len(s) + 1
    ELSE CHOOSE i \in 1..Len(s) :
           At(s, i) \notin SpaceCh /\ \A j \in 1..(i - 1) : At(s, j) \in SpaceCh
RStripPos(s) ==
    IF \A i \in 1..Len(s) : At(s, i) \in SpaceCh THEN 0
    ELSE CHOOSE i \in 1..Len(s) :
           At(s, i) \notin SpaceCh /\ \A j \in (i + 1)..Len(s) : At(s, j) \in SpaceCh
RStrip(s) == SubSeq(s, 1, RStripPos(s))
Strip(s) == SubSeq(s, LStripPos(s), RStripPos(s))
\* s[:n]
Prefix(s, n) == SubSeq(s, 1, IF Len(s) < n THEN Len(s) ELSE n)

\* ------------------------------------------------------------ config
MAX_SITE_PAGES == 4
MAX_OFFER_LEN == 30

CTA_PATTERNS ==
    << Word("call"), Word("text"), Word("email"), Word("message"), Word("contact"),
       Word("book"), Word("schedule"), Word("appointment"), Word("get a quote"),
       Word("get quote"), Word("request"), Word("click"), Word("tap"), Word("visit"),
       Word("order"), Word("buy"), Word("apply now"), Word("chat"), Word("inquire"),
       Word("quote") >>

PhoneSep == Opt(In({" ", "\t", "\n", "\r", "\f", "-", "."}))
PHONE_REGEX ==
    Cat(<< Opt(Cat(<<Opt(In({"+"})), Opt(In({"1"})), Sp0>>)),
           Cat(<< Opt(In({"("})), Rep(D, 3, 3), Opt(In({")"})), PhoneSep,
                  Rep(D, 3, 3), PhoneSep, Rep(D, 4, 4) >>) >>)
URL_REGEX ==
    Alt(<< Cat(<<Lit("http"), Opt(In({"s"})), Lit("://"), Many(NotIn(SpaceCh), 1)>>),
           Cat(<<Lit("www."), Many(NotIn(SpaceCh), 1)>>) >>)

clean_str(x) == Strip(x)

RECURSIVE StripCtas(_, _)
StripCtas(t, k) ==
    IF k > Len(CTA_PATTERNS) THEN t
    ELSE The({ StripCtas(u, k + 1)
             : u \in {Sub(CTA_PATTERNS[k], TRUE, "", t)} })

strip_contact_and_cta(text) ==
    The({ IF t0 = "" THEN ""
          ELSE The({ The({ The({ The({ Strip(Sub(Many(In({"|", BULLET}), 1), FALSE, " ", t4))
                         : t4 \in {Strip(Sub(Sp1, FALSE, " ", t3))} })
                       : t3 \in {StripCtas(t2, 1)} })
                     : t2 \in {Sub(PHONE_REGEX, FALSE, "", t1)} })
                   : t1 \in {Sub(URL_REGEX, TRUE, "", t0)} })
        : t0 \in {clean_str(text)} })

\* the offer-shape patterns of compress_to_offer, in list order
OFFER_SHAPES ==
    << Cat(<<WB, Rep(D, 1, 2), In({"%"}), Sp0, Lit("off"), WB>>),
       Cat(<<WB, Opt(In({"$"})), Sp0, Many(D, 1), Sp0,
             Alt(<<Lit("off"), Lit("discount")>>), WB>>),
       Cat(<<WB, Lit("free"), Sp1, W1, Opt(Cat(<<Sp1, W1>>)), WB>>),
       Cat(<<WB, Lit("0%"), Sp0, Alt(<<Lit("apr"), Lit("interest")>>), WB>>),
       Cat(<<WB, Lit("financing"), Sp1, Lit("available"), WB>>),
       Cat(<<WB, Lit("no"), Sp1, Lit("money"), Sp1, Lit("down"), WB>>),
       Cat(<<WB, Lit("lifetime"), Sp1, Lit("warranty"), WB>>),
       Cat(<<WB, Many(D, 1), Sp0, Alt(<<Lit("year"), Lit("yr")>>), Sp0,
             Lit("warranty"), WB>>),
       Cat(<<WB, Lit("same"), Many(In({"-"} \cup SpaceCh), 0), Lit("day"), Sp1,
             Lit("service"), WB>>),
       Cat(<<WB, Lit("price"), Sp0, Lit("match"), WB>>),
       Cat(<<WB, Lit("seasonal"), Sp1, Lit("special"), WB>>) >>

\* m.group(1) of re.search(p, t), or t itself when p does not match
Narrow(p, t) ==
    The({ IF m[1] = 0 THEN t ELSE SubSeq(t, m[1], m[2] - 1)
        : m \in {Search(p, TRUE, t, 1)} })

\* the loop over the patterns: every pattern is searched in the text the
\* patterns before it left
RECURSIVE ApplyShapes(_, _)
ApplyShapes(t, k) ==
    IF k > Len(OFFER_SHAPES) THEN t
    ELSE The({ ApplyShapes(u, k + 1)
             : u \in {Narrow(OFFER_SHAPES[k], t)} })

\* the text compress_to_offer carries into truncation
offer_text(text) ==
    The({ IF c = "" THEN "" ELSE ApplyShapes(c, 1)
        : c \in {strip_contact_and_cta(text)} })

\* t[:MAX_OFFER_LEN] cut back to the last whole word
WordCut(t) ==
    The({ Strip(Sub(Cat(<<Sp1, Many(NotIn(SpaceCh), 0), EOS>>), FALSE, "", cut))
        : cut \in {RStrip(Prefix(t, MAX_OFFER_LEN))} })

\* the truncation of compress_to_offer: t0 is the text carried into it
Truncate(t0, text) ==
    The({ IF Len(t) > MAX_OFFER_LEN
          THEN The({ IF word = ""
                     THEN Strip(Prefix(strip_contact_and_cta(text), MAX_OFFER_LEN))
                     ELSE word
                   : word \in {WordCut(t)} })
          ELSE t
        : t \in {Strip(Sub(Sp1, FALSE, " ", t0))} })

HasContact(t) == Found(URL_REGEX, TRUE, t) \/ Found(PHONE_REGEX, FALSE, t)

\* compress_to_offer without the search for a URL or a phone number at its end
compress_unchecked(text) ==
    The({ IF m = "" THEN "" ELSE Truncate(m, text)
        : m \in {offer_text(text)} })

compress_to_offer(text) ==
    The({ IF m = "" THEN ""
          ELSE The({ IF HasContact(t) THEN "" ELSE t
                   : t \in {Truncate(m, text)} })
        : m \in {offer_text(text)} })

OFFER_PATTERNS ==
    << Cat(<<WB, Rep(D, 1, 2), In({"%"}), Sp0, Lit("off"), WB>>),
       Word("discount"), Word("coupon"), Word("promo"), Word("promotion"),
       Word("special"), Word("deal"), Word("save"), Word("free"),
       Word("no money down"), Word("starting at"),
       Cat(<<WB, In({"$"}), Sp0, Many(D, 1), WB>>),
       Cat(<<WB, Lit("0%"), WB>>), Word("apr"), Word("interest"), Word("warranty") >>
FINANCING_PATTERNS ==
    << Word("financing"), Word("monthly payments"),
       Cat(<<WB, Lit("0% interest"), WB>>), Word("no interest"), Word("deferred"),
       Word("pre-qualify"), Word("credit") >>
WARRANTY_PATTERNS ==
    << Word("warranty"), Word("lifetime"), Word("guarantee"), Word("workmanship") >>
Espanol == Cat(<<Lit("espa"), Alt(<<Lit("n"), Lit(ENYE)>>), Lit("ol")>>)
SPANISH_PATTERNS ==
    << Cat(<<WB, Lit("se habla "), Espanol, WB>>),
       Cat(<<WB, Lit("hablamos "), Espanol, WB>>),
       Cat(<<WB, Espanol, WB>>) >>
INSURED_PATTERNS == << Word("insured"), Word("fully insured"), Word("liability insured") >>
BONDED_PATTERNS == << Word("bonded"), Word("licensed and bonded") >>
VIRTUAL_PATTERNS ==
    << Word("virtual"), Word("video consultation"), Word("virtual estimate"),
       Word("remote") >>

MIN_SENTENCE_LEN == 18
MAX_HIT_LEN == 240
SENTENCE_SPLIT == Cat(<<Behind({".", "!", "?"}), Sp1>>)

AnyFound(patterns, s) == \E k \in 1..Len(patterns) : Found(patterns[k], TRUE, s)

\* what find_sentences makes of a stripped sentence of 18 characters or more:
\* the hit, or "" when it appends none
hit_of(patterns, s) ==
    IF AnyFound(patterns, s) THEN Prefix(strip_contact_and_cta(s), MAX_HIT_LEN) ELSE ""

\* One turn of the loop of find_sentences on sentence k; st is the list of hits
\* and whether the loop has ended. A sentence under 18 characters is passed
\* over before the cap is looked at; hit[s] is hit_of(patterns, s).
ScanOne(sentences, k, hit, max_items, st) ==
    The({ IF Len(s) < MIN_SENTENCE_LEN THEN st
          ELSE The({ <<more, Len(more) >= max_items>>
                   : more \in {IF hit[s] # "" THEN Append(st[1], hit[s]) ELSE st[1]} })
        : s \in {Strip(sentences[k])} })

\* the loop of find_sentences over the sentences lo..hi
RECURSIVE ScanSentences(_, _, _, _, _, _)
ScanSentences(sentences, lo, hi, hit, max_items, st) ==
    IF st[2] \/ lo > hi THEN st
    ELSE IF lo = hi THEN ScanOne(sentences, lo, hit, max_items, st)
    ELSE The({ ScanSentences(sentences, (lo + hi) \div 2 + 1, hi, hit, max_items, left)
             : left \in {ScanSentences(sentences, lo, (lo + hi) \div 2, hit, max_items, st)} })

FindIn(sentences, hit, max_items) ==
    ScanSentences(sentences, 1, Len(sentences), hit, max_items, <<(<<>>), FALSE>>)[1]

\* the stripped sentences of 18 characters or more
Searched(sentences) ==
    {s \in {Strip(sentences[k]) : k \in 1..Len(sentences)} : Len(s) >= MIN_SENTENCE_LEN}

\* find_sentences(text, patterns, max_items), hit being hit_of for the patterns
find_sentences(text, hit, max_items) ==
    IF text = "" THEN <<>>
    ELSE FindIn(Split(SENTENCE_SPLIT, FALSE, text), hit, max_items)

PatternsOf(c) ==
    CASE c = "offers" -> OFFER_PATTERNS
      [] c = "financing" -> FINANCING_PATTERNS
      [] c = "warranty" -> WARRANTY_PATTERNS
      [] c = "spanish" -> SPANISH_PATTERNS
      [] c = "insured" -> INSURED_PATTERNS
      [] c = "bonded" -> BONDED_PATTERNS
      [] c = "virtual" -> VIRTUAL_PATTERNS

\* ------------------------------------------------------------ normalizer
StartsWith(s, w) == Len(s) >= Len(w) /\ SubSeq(s, 1, Len(w)) = w

normalize_url(url) ==
    The({ IF u = "" THEN ""
          ELSE IF StartsWith(u, "http://") \/ StartsWith(u, "https://") THEN u
          ELSE "https://" \o u
        : u \in {clean_str(url)} })

\* ------------------------------------------------------------ crawler
CANDIDATE_PATHS ==
    << "", "specials", "offers", "deals", "coupons", "promotions", "financing",
       "warranty", "about", "services", "service", "contact" >>
MIN_PAGE_TEXT == 200
MAX_TITLE_LEN == 120

\* website.rstrip("/")
RStripSlash(s) ==
    IF \A i \in 1..Len(s) : At(s, i) = "/" THEN ""
    ELSE SubSeq(s, 1, CHOOSE i \in 1..Len(s) :
                        At(s, i) # "/" /\ \A j \in (i + 1)..Len(s) : At(s, j) = "/")

\* urljoin(website.rstrip("/") + "/", path) for a path of CANDIDATE_PATHS: the
\* base ends in "/" and the path is relative, so the path is appended
PageUrl(base, path) == RStripSlash(base) \o "/" \o path

\* What a GET of a page and the parse of its body yield: the request raised,
\* or a response with a status and, in its parsed document, the title
\* element's text, the content of <meta name="description"> and of
\* <meta property="og:description"> ("" when absent), and the text of the body
\* outside script, style, noscript and svg elements.
Response(raised, status, ttl, meta, og, body) ==
    [raised |-> raised, status |-> status, title |-> ttl, meta |-> meta, og |-> og,
     body |-> body]

BodyThin == " Welcome to Acme.\n Call us. "
BodyA ==
    "  Acme Roofing\n\n Save 20% off your first roof repair.  Take 20% off any gutter cleaning!  "
    \o "Call 555-123-4567 for a free quote. We offer a lifetime warranty on shingles.\n"
    \o "Financing available with 0% interest today. We are fully insured and bonded. "
    \o "Ask about a virtual estimate now. Free estimates on every new installation. "
    \o "10 year warranty on labor. Se habla espa~ol aqui. We fix roofs. Open daily. "

\* the request raised; a 404 whose error page has metadata and a long body; two
\* pages under 200 characters, one of them with all the metadata; a page that
\* is kept, its title whitespace and its description holding a phone number
Raised == Response(TRUE, 0, "", "", "", "")
NotFound == Response(FALSE, 404, "Not Found", "none", "none", BodyA)
PageThin == Response(FALSE, 200, " Acme Roofing ", "", "Acme", BodyThin)
PageTeaser ==
    Response(FALSE, 200, "Deals", "Roof financing", "Visit www.acme.com today", BodyThin)
PageA == Response(FALSE, 200, "  ", " Call 555-123-4567 for roofing deals ", "", BodyA)
Outcomes == {Raised, NotFound, PageThin, PageTeaser, PageA}

\* extract_visible_text, on the text of the parsed body
extract_visible_text(body) == Strip(Sub(Sp1, FALSE, " ", body))
\* get_meta, on the content of the tag
get_meta(content) == IF content = "" THEN "" ELSE Strip(content)
\* soup.title.get_text().strip()[:120], "" when there is no title text
page_title(ttl) == IF ttl = "" THEN "" ELSE Prefix(Strip(ttl), MAX_TITLE_LEN)

\* the pure functions above, tabulated over the responses
VisibleText == [r \in Outcomes |-> extract_visible_text(r.body)]
MetaOf == [r \in Outcomes |-> get_meta(r.meta)]
OgOf == [r \in Outcomes |-> get_meta(r.og)]
TitleOf == [r \in Outcomes |-> page_title(r.title)]

\* ------------------------------------------------------------ assembler
MAX_OFFERS == 3
MAX_HIGHLIGHTS == 3
MAX_TAGLINE_LEN == 140
MAX_TEXT_LEN == 500
MAX_DESCRIPTION_LEN == 300

RECURSIVE Join(_, _)
Join(ws, sep) ==
    IF ws = <<>> THEN "" ELSE IF Len(ws) = 1 THEN ws[1]
    ELSE ws[1] \o sep \o Join(Tail(ws), sep)

Range(f) == {f[k] : k \in 1..Len(f)}
RECURSIVE NonEmpty(_)
NonEmpty(ws) ==
    IF ws = <<>> THEN <<>>
    ELSE IF Head(ws) = "" THEN NonEmpty(Tail(ws)) ELSE <<Head(ws)>> \o NonEmpty(Tail(ws))
Take(ws, n) == SubSeq(ws, 1, IF Len(ws) < n THEN Len(ws) ELSE n)

\* The sentences the pages hold, and the text functions tabulated over them:
\* hit_of per category over the sentences, compress_to_offer and
\* strip_contact_and_cta over the hits.
KeptTexts == {VisibleText[r] : r \in {r \in Outcomes : Len(VisibleText[r]) >= MIN_PAGE_TEXT}}
PageSentences ==
    {s : s \in UNION {Searched(Split(SENTENCE_SPLIT, FALSE, body)) : body \in KeptTexts}}
AllCategories ==
    {"offers", "financing", "warranty", "spanish", "insured", "bonded", "virtual"}
PageHits == [c \in AllCategories |-> [s \in PageSentences |-> hit_of(PatternsOf(c), s)]]
HitTexts == {PageHits[c][s] : c \in AllCategories, s \in PageSentences}
PageOffers == [h \in HitTexts |-> compress_to_offer(h)]
CleanHits == [h \in HitTexts |-> strip_contact_and_cta(h)]

\* [compress_to_offer(s) for s in raw]
Compressed(raw) == AsSeq([k \in 1..Len(raw) |-> PageOffers[raw[k]]])

\* the loop that accepts the non-empty compressions not accepted before, and
\* ends once cap of them are accepted; cs are the compressions in hit order
\* the loop with no test for a compression accepted before
RECURSIVE AcceptRepeats(_, _, _, _)
AcceptRepeats(cs, k, acc, cap) ==
    IF k > Len(cs) THEN acc
    ELSE The({ IF Len(more) >= cap THEN more ELSE AcceptRepeats(cs, k + 1, more, cap)
             : more \in {IF cs[k] # "" THEN Append(acc, cs[k]) ELSE acc} })

RECURSIVE AcceptFrom(_, _, _, _)
AcceptFrom(cs, k, acc, cap) ==
    IF k > Len(cs) THEN acc
    ELSE The({ IF Len(more) >= cap THEN more ELSE AcceptFrom(cs, k + 1, more, cap)
             : more \in {IF cs[k] # "" /\ cs[k] \notin Range(acc) THEN Append(acc, cs[k]) ELSE acc} })

build_offers(cs) == Take(AcceptFrom(cs, 1, <<>>, MAX_OFFERS), MAX_OFFERS)
build_highlights(cs) == Take(AcceptFrom(cs, 1, <<>>, MAX_HIGHLIGHTS), MAX_HIGHLIGHTS)

\* "; ".join([strip_contact_and_cta(x) for x in raw[:2] if strip_contact_and_cta(x)])[:500]
DisplayText(raw) ==
    The({ Prefix(Join(NonEmpty(cl), "; "), MAX_TEXT_LEN)
        : cl \in {AsSeq([k \in 1..Len(Take(raw, 2)) |-> CleanHits[raw[k]]])} })

\* what scrape_site_bundle derives from the texts of the pages it kept
Mine(ts) ==
    The({ The({ The({ The({ The({ [ offers_raw |-> offers_raw,
                  compressed |-> cs,
                  offers |-> build_offers(cs),
                  highlights |-> build_highlights(Take(cs, 3) \o Compressed(Take(financing_raw, 2))
                                                  \o Compressed(Take(warranty_raw, 2))),
                  financingOptions |-> DisplayText(financing_raw),
                  warrantyText |-> DisplayText(warranty_raw),
                  spanish |-> find_sentences(combined, PageHits["spanish"], 1) # <<>>,
                  insured |-> find_sentences(combined, PageHits["insured"], 1) # <<>>,
                  bonded |-> find_sentences(combined, PageHits["bonded"], 1) # <<>>,
                  virtual |-> find_sentences(combined, PageHits["virtual"], 1) # <<>> ]
                : cs \in {Compressed(offers_raw)} })
              : warranty_raw \in {find_sentences(combined, PageHits["warranty"], 3)} })
            : financing_raw \in {find_sentences(combined, PageHits["financing"], 5)} })
          : offers_raw \in {find_sentences(combined, PageHits["offers"], 10)} })
        : combined \in {Join(ts, " ")} })

NothingMined ==
    [ offers_raw |-> <<>>, compressed |-> <<>>, offers |-> <<>>, highlights |-> <<>>,
      financingOptions |-> "", warrantyText |-> "", spanish |-> FALSE,
      insured |-> FALSE, bonded |-> FALSE, virtual |-> FALSE ]

\* Mine tabulated over the lists of texts a crawl can keep
KeptSeqs == {AsSeq(f) : f \in UNION {[1..n -> KeptTexts] : n \in 1..MAX_SITE_PAGES}}
Mined == [ts \in KeptSeqs |-> Mine(ts)]

\* strip_contact_and_cta tabulated over the metadata a crawl can capture
Captured ==
    {TitleOf[r] : r \in Outcomes} \cup {MetaOf[r] : r \in Outcomes}
    \cup {OgOf[r] : r \in Outcomes}
CleanCaptured == [v \in Captured |-> strip_contact_and_cta(v)]

\* A dict is a record of all the fields any of the dicts has, with the set of
\* the keys it holds: d.get(k) is None when k is not in d.keys.
Dict(keys, status) ==
    [ keys |-> keys, status |-> status, error |-> "", pagesChecked |-> <<>>,
      metaDescription |-> "", ogDescription |-> "", title |-> "", offers |-> <<>>,
      financingOptions |-> "", warrantyText |-> "", spanish |-> FALSE,
      insured |-> FALSE, bonded |-> FALSE, virtual |-> FALSE, highlights |-> <<>>,
      highlightsTagline |-> "" ]
EmptyDict == Dict({}, "")
OkKeys ==
    { "status", "pagesChecked", "metaDescription", "ogDescription", "title", "offers",
      "financingOptions", "warrantyText", "spanish", "insured", "bonded", "virtual",
      "highlights", "highlightsTagline" }

\* the dict scrape_site_bundle returns with status "ok"
OkBundle(m, ttl, meta, og, pages) ==
    [ Dict(OkKeys, "ok") EXCEPT
        !.pagesChecked = pages,
        !.metaDescription = IF meta # "" THEN Prefix(CleanCaptured[meta], MAX_DESCRIPTION_LEN) ELSE "",
        !.ogDescription = IF og # "" THEN Prefix(CleanCaptured[og], MAX_DESCRIPTION_LEN) ELSE "",
        !.title = IF ttl # "" THEN CleanCaptured[ttl] ELSE "",
        !.offers = m.offers,
        !.financingOptions = m.financingOptions,
        !.warrantyText = m.warrantyText,
        !.spanish = m.spanish, !.insured = m.insured, !.bonded = m.bonded,
        !.virtual = m.virtual,
        !.highlights = m.highlights,
        !.highlightsTagline =
            Prefix(IF ttl # "" THEN CleanCaptured[ttl]
                   ELSE CleanCaptured[IF meta # "" THEN meta ELSE og], MAX_TAGLINE_LEN) ]

\* ------------------------------------------------------------ webhook
\* enriched["google"]: a field is "" when the details do not hold it
Google(keys, website_, description, hours, err) ==
    [ keys |-> keys, rating |-> IF "rating" \in keys THEN "4.8" ELSE "",
      reviewCount |-> IF "reviewCount" \in keys THEN "12" ELSE "",
      website |-> website_,
      top5GoogleReviews |-> IF "top5GoogleReviews" \in keys THEN "Great crew" ELSE "",
      businessHours |-> hours, description |-> description,
      mapsUrl |-> IF "mapsUrl" \in keys THEN "https://maps.example/acme" ELSE "",
      error |-> err ]
DetailKeys ==
    { "rating", "reviewCount", "website", "top5GoogleReviews", "businessHours",
      "description", "mapsUrl" }
NoGoogle == Google({}, "", "", "", "")
GoogleError == Google({"error"}, "", "", "", "timed out")
GoogleDetails ==
    Google(DetailKeys, "https://acme.example", "Local roofer", "Mon 9-5 | Tue 9-5", "")
GoogleOutcomes == {NoGoogle, GoogleError, GoogleDetails}

\* strip_contact_and_cta tabulated over the texts the output section cleans
OutputTexts ==
    {""} \cup {g.businessHours : g \in GoogleOutcomes}
    \cup {g.description : g \in GoogleOutcomes}
    \cup {Prefix(CleanCaptured[v], MAX_DESCRIPTION_LEN) : v \in Captured}
CleanOutput == [v \in OutputTexts |-> strip_contact_and_cta(v)]

Or(a, b) == IF a # "" THEN a ELSE b
Nth(ws, n) == IF Len(ws) >= n THEN ws[n] ELSE ""
YesNo(b) == IF b THEN "yes" ELSE "no"

NoOutput ==
    [ code |-> 0, companyWebsite |-> "", averageGoogleReviewRating |-> "",
      numberOfGoogleReviews |-> "", top5GoogleReviews |-> "", businessHours |-> "",
      description |-> "", specialOffer1 |-> "", specialOffer2 |-> "",
      specialOffer3 |-> "", offersFinancing |-> "", financingOptions |-> "",
      waranty |-> "", isInsured |-> "", isBonded |-> "",
      offersVirtualPresentations |-> "", highlightPoint1 |-> "",
      highlightPoint2 |-> "", highlightPoint3 |-> "", highlightsTagline |-> "" ]

\* the response to a request the handler raised on
Failed(code) == [NoOutput EXCEPT !.code = code]

\* enriched["output"] of a request, g and s being the dicts of the google and
\* site sections and w the normalized website; s.get(k) of a key s does not
\* hold is None, which "or" turns into the default
enriched_output(g, s, w) ==
    [ code |-> 200,
      companyWebsite |-> Or(g.website, w),
      averageGoogleReviewRating |-> g.rating,
      numberOfGoogleReviews |-> g.reviewCount,
      top5GoogleReviews |-> g.top5GoogleReviews,
      businessHours |-> Prefix(CleanOutput[g.businessHours], MAX_TEXT_LEN),
      description |->
          Prefix(CleanOutput[Or(g.description, Or(s.metaDescription, s.ogDescription))],
                 MAX_TEXT_LEN),
      specialOffer1 |-> Nth(s.offers, 1),
      specialOffer2 |-> Nth(s.offers, 2),
      specialOffer3 |-> Nth(s.offers, 3),
      offersFinancing |-> YesNo(s.financingOptions # ""),
      financingOptions |-> Prefix(s.financingOptions, MAX_TEXT_LEN),
      waranty |-> Prefix(s.warrantyText, MAX_TEXT_LEN),
      isInsured |-> YesNo(s.insured),
      isBonded |-> YesNo(s.bonded),
      offersVirtualPresentations |-> YesNo(s.virtual),
      highlightPoint1 |-> Nth(s.highlights, 1),
      highlightPoint2 |-> Nth(s.highlights, 2),
      highlightPoint3 |-> Nth(s.highlights, 3),
      highlightsTagline |-> Prefix(s.highlightsTagline, MAX_TAGLINE_LEN) ]

\* the last entry of the output dict slices s.get("highlightsTagline"), which
\* is None, and raises TypeError, when s does not hold the key
TaglineRaises(s) == "highlightsTagline" \notin s.keys

\* ------------------------------------------------------------ state
VARIABLES
    \* a call of one of the text functions
    op,            \* the text function applied: "input" before, then its name
    in_text,       \* the text the function is applied to
    clean,         \* strip_contact_and_cta(in_text)
    carried,       \* compress_to_offer: the text carried into truncation
    offer,         \* compress_to_offer(in_text)
    category,      \* find_sentences: the name of the pattern list
    in_max_items,  \* find_sentences: the max_items it is called with
    hits,          \* find_sentences(in_text, patterns, in_max_items)
    \* a webhook request, or a call of scrape_site_bundle on its own
    entry,         \* "webhook" or "scrape": the function called
    secret,        \* the x-webhook-secret header: "unset", "wrong" or "right"
    website,       \* payload.website, or the argument of scrape_site_bundle
    pc,            \* where the call stands
    google,        \* enriched["google"]
    site,          \* scrape_site_bundle: the normalized website
    idx,           \* the index in CANDIDATE_PATHS of the next path of the loop
    texts, pages_checked, meta_description, og_description, title,
    bundle,        \* enriched["site"], or what scrape_site_bundle returned
    mined,         \* the hits and offers the bundle was assembled from
    output,        \* enriched["output"]
    \* history
    requested,     \* the URLs a GET was issued for, in order
    fetched_ok,    \* the number of GETs that returned with status < 400
    qualified,     \* the number of those whose visible text had 200 characters
    first_title,   \* of those, the first title, description and og:description
    first_meta,    \*   that was not empty, "" until there is one
    first_og

textVars == <<op, in_text, clean, carried, offer, category, in_max_items, hits>>
crawlVars == <<site, idx, texts, pages_checked, meta_description, og_description, title>>
callVars == <<entry, secret, website, pc, google, bundle, mined, output>>
histVars == <<requested, fetched_ok, qualified, first_title, first_meta, first_og>>
vars == <<textVars, crawlVars, callVars, histVars>>

\* the variables of the part of the program a specification does not run
TextIdle ==
    /\ op = "none" /\ in_text = "" /\ clean = "" /\ carried = "" /\ offer = ""
    /\ category = "none" /\ in_max_items = 0 /\ hits = <<>>
CrawlIdle ==
    /\ site = "" /\ idx = 0 /\ texts = <<>> /\ pages_checked = <<>>
    /\ meta_description = "" /\ og_description = "" /\ title = ""
    /\ bundle = EmptyDict /\ mined = NothingMined
    /\ requested = <<>> /\ fetched_ok = 0 /\ qualified = 0
    /\ first_title = "" /\ first_meta = "" /\ first_og = ""
CallIdle ==
    /\ entry = "none" /\ secret = "none" /\ website = "" /\ pc = "idle"
    /\ google = NoGoogle /\ output = NoOutput

\* ------------------------------------------------------------ text functions
MaxTokens == 3
Tokens == {"(555)", "call", " 123-4567", "free ", "lifetime warranty", "www.x.io"}

RECURSIVE Concat(_)
Concat(ws) == IF ws = <<>> THEN "" ELSE Head(ws) \o Concat(Tail(ws))

TokenSeqs(S, n) == UNION {[1..k -> S] : k \in 0..n}
TextInputs == {Concat(ws) : ws \in TokenSeqs(Tokens, MaxTokens)}

InitText ==
    /\ in_text \in TextInputs
    /\ op = "input"
    /\ clean = "" /\ carried = "" /\ offer = ""
    /\ category = "none" /\ in_max_items = 0 /\ hits = <<>>
    /\ CrawlIdle /\ CallIdle

Sanitize ==
    /\ op = "input"
    /\ op' = "sanitize"
    /\ clean' = strip_contact_and_cta(in_text)
    /\ UNCHANGED <<in_text, carried, offer, category, in_max_items, hits, crawlVars, callVars, histVars>>

Compress ==
    /\ op = "input"
    /\ op' = "compress"
    /\ clean' = strip_contact_and_cta(in_text)
    /\ carried' = offer_text(in_text)
    /\ offer' = compress_to_offer(in_text)
    /\ UNCHANGED <<in_text, category, in_max_items, hits, crawlVars, callVars, histVars>>

NextText == Sanitize \/ Compress
SpecText == InitText /\ [][NextText]_vars

\* ------------------------------------------------------------ sentence matcher
MaxSentences == 3
MaxItems == 2
Categories == {"offers", "warranty"}
RECURSIVE Times(_, _)
Times(w, n) == IF n = 0 THEN "" ELSE w \o Times(w, n - 1)

\* a sentence under 18 characters, two that match, one that sanitizes to
\* nothing, and one longer than 240 characters
Sentences ==
    { "Save 20% off now. ",
      "Save 20% off your first repair today! ",
      "We offer a lifetime warranty on shingles. ",
      "call www.free.warranty.com ",
      "Our special " \o Times("very ", 50) \o "good deal? " }
SentenceInputs == {Concat(ws) : ws \in TokenSeqs(Sentences, MaxSentences)}

\* hit_of tabulated over the sentences of the inputs
InputSentences ==
    {s : s \in UNION {Searched(Split(SENTENCE_SPLIT, FALSE, t)) : t \in SentenceInputs}}
InputHits == [c \in Categories |-> [s \in InputSentences |-> hit_of(PatternsOf(c), s)]]

InitFind ==
    /\ in_text \in SentenceInputs
    /\ category \in Categories
    /\ in_max_items \in 0..MaxItems
    /\ op = "input"
    /\ clean = "" /\ carried = "" /\ offer = "" /\ hits = <<>>
    /\ CrawlIdle /\ CallIdle

FindSentences ==
    /\ op = "input"
    /\ op' = "find"
    /\ hits' = find_sentences(in_text, InputHits[category], in_max_items)
    /\ UNCHANGED <<in_text, clean, carried, offer, category, in_max_items, crawlVars, callVars, histVars>>

NextFind == FindSentences
SpecFind == InitFind /\ [][NextFind]_vars

\* ------------------------------------------------------------ requests
Websites == {"", "  ", " acme.com/ "}
Secrets == {"unset", "wrong", "right"}

InitCrawl ==
    /\ entry \in {"webhook", "scrape"}
    /\ secret \in IF entry = "webhook" THEN Secrets ELSE {"none"}
    /\ website \in Websites
    /\ pc = IF entry = "webhook" THEN "auth" ELSE "scrape"
    /\ google = NoGoogle /\ output = NoOutput
    /\ TextIdle /\ CrawlIdle

\* where a call goes on once scrape_site_bundle has returned or raised
AfterScrape == IF entry = "webhook" THEN "output" ELSE "done"

\* gravityforms_webhook: the guard on the secret
Authorize ==
    /\ pc = "auth"
    /\ IF secret = "unset" THEN pc' = "rejected" /\ output' = Failed(500)
       ELSE IF secret # "right" THEN pc' = "rejected" /\ output' = Failed(401)
       ELSE pc' = "google" /\ output' = output
    /\ UNCHANGED <<entry, secret, website, google, bundle, mined, textVars, crawlVars, histVars>>

\* gravityforms_webhook: the Google enrichment, which leaves the section empty
\* (no company, no key, no place), fills it with the details, or records the error
GoogleEnrich ==
    /\ pc = "google"
    /\ google' \in GoogleOutcomes
    /\ pc' = IF normalize_url(website) # "" THEN "scrape" ELSE "output"
    /\ UNCHANGED <<entry, secret, website, bundle, mined, output, textVars, crawlVars, histVars>>

\* scrape_site_bundle: up to the loop
StartScrape ==
    /\ pc = "scrape"
    /\ site' = normalize_url(IF entry = "webhook" THEN normalize_url(website) ELSE website)
    /\ IF site' = ""
       THEN /\ bundle' = Dict({"status"}, "missing")
            /\ pc' = AfterScrape
            /\ idx' = idx
       ELSE /\ bundle' = bundle
            /\ pc' = "crawl"
            /\ idx' = 1
    /\ UNCHANGED <<texts, pages_checked, meta_description, og_description, title>>
    /\ UNCHANGED <<entry, secret, website, google, mined, output, textVars, histVars>>

\* the loop goes on: a path is left and fewer than MAX_SITE_PAGES pages are kept
LoopGoesOn == idx <= Len(CANDIDATE_PATHS) /\ Len(pages_checked) < MAX_SITE_PAGES

\* only a server error is passed over
RejectedServerError(r) == r.status >= 500
\* resp.status_code >= 400: continue
Rejected(r) == r.status >= 400
\* the threshold with a digit too many
ThinUnderTenfold(r) == Len(VisibleText[r]) < 10 * MIN_PAGE_TEXT
\* len(text) < 200: continue
Thin(r) == Len(VisibleText[r]) < MIN_PAGE_TEXT
\* a value found later replaces the one held
Overwrite(held, found) == IF found # "" THEN found ELSE held
\* if not x: x = found
Capture(held, found) == IF held = "" THEN found ELSE held

\* the history of a GET that yielded r
Observe(r) ==
    IF ~r.raised /\ r.status < 400
    THEN /\ fetched_ok' = fetched_ok + 1
         /\ qualified' = IF Len(VisibleText[r]) >= 200 THEN qualified + 1 ELSE qualified
         /\ first_title' = IF first_title = "" THEN TitleOf[r] ELSE first_title
         /\ first_meta' = IF first_meta = "" THEN MetaOf[r] ELSE first_meta
         /\ first_og' = IF first_og = "" THEN OgOf[r] ELSE first_og
    ELSE UNCHANGED <<fetched_ok, qualified, first_title, first_meta, first_og>>

\* scrape_site_bundle: one turn of the loop, the GET yielding r
Fetch(r) ==
    /\ pc = "crawl" /\ LoopGoesOn
    /\ LET url == PageUrl(site, CANDIDATE_PATHS[idx]) IN
       /\ requested' = Append(requested, url)
       /\ Observe(r)
       /\ idx' = idx + 1
       /\ IF r.raised \/ Rejected(r)
          THEN UNCHANGED <<texts, pages_checked, meta_description, og_description, title>>
          ELSE /\ meta_description' = Capture(meta_description, MetaOf[r])
               /\ og_description' = Capture(og_description, OgOf[r])
               /\ title' = IF title = "" /\ r.title # "" THEN TitleOf[r] ELSE title
               /\ IF Thin(r)
                  THEN UNCHANGED <<texts, pages_checked>>
                  ELSE /\ texts' = Append(texts, VisibleText[r])
                       /\ pages_checked' = Append(pages_checked, url)
    /\ UNCHANGED <<site, callVars, textVars>>

FetchPage == \E r \in Outcomes : Fetch(r)

\* scrape_site_bundle: after the loop
FinishCrawl ==
    /\ pc = "crawl" /\ ~LoopGoesOn
    /\ IF texts = <<>>
       THEN /\ bundle' = Dict({"status"}, "unreachable")
            /\ mined' = mined
       ELSE /\ mined' = Mined[texts]
            /\ bundle' = OkBundle(mined', title, meta_description, og_description,
                                   pages_checked)
    /\ pc' = AfterScrape
    /\ UNCHANGED <<entry, secret, website, google, output, textVars, crawlVars, histVars>>

\* gravityforms_webhook: an exception raised by the code of scrape_site_bundle
\* after the loop, which no try of the function covers
ScrapeRaises ==
    /\ pc = "crawl" /\ ~LoopGoesOn /\ texts # <<>>
    /\ entry = "webhook"
    /\ bundle' = [Dict({"status", "error"}, "error") EXCEPT !.error = "error"]
    /\ pc' = "output"
    /\ UNCHANGED <<entry, secret, website, google, mined, output, textVars, crawlVars, histVars>>

\* gravityforms_webhook: the output section and the return
BuildOutput ==
    /\ pc = "output"
    /\ IF TaglineRaises(bundle)
       THEN pc' = "fault" /\ output' = Failed(500)
       ELSE pc' = "done" /\ output' = enriched_output(google, bundle, normalize_url(website))
    /\ UNCHANGED <<entry, secret, website, google, bundle, mined, textVars, crawlVars, histVars>>

NextCrawl ==
    \/ Authorize
    \/ GoogleEnrich
    \/ StartScrape
    \/ FetchPage
    \/ FinishCrawl
    \/ ScrapeRaises
    \/ BuildOutput
SpecCrawl == InitCrawl /\ [][NextCrawl]_vars

\* ------------------------------------------------------------ properties
\* the bundle scrape_site_bundle returned
Returned == "status" \in bundle.keys /\ bundle.status # "error"
\* the step is a GET that raised or returned a status of 400 or more
FailedGet == requested' # requested /\ fetched_ok' = fetched_ok
\* the first place of v in the sequence cs
FirstAt(cs, v) == CHOOSE k \in 1..Len(cs) : cs[k] = v /\ \A j \in 1..(k - 1) : cs[j] # v

\* C1: the output of strip_contact_and_cta holds no match of the URL pattern
\* and no match of the phone pattern, whatever the input.
C1_SanitizedHasNoContact == op = "sanitize" => ~HasContact(clean)

\* C2: compress_to_offer returns at most 30 characters, and a non-empty result
\* holds neither a URL-like nor a phone-like substring, whether a pattern
\* matched or the text was truncated.
C2_OfferBounded ==
    op = "compress" => Len(offer) <= MAX_OFFER_LEN /\ (offer # "" => ~HasContact(offer))
\* a text of more than 30 characters was carried into truncation and cut to
\* a non-empty offer
C2_Truncated == op = "compress" /\ Len(carried) > MAX_OFFER_LEN /\ offer # ""

\* C3: when an offer-shape pattern matches the sanitized text, the text
\* carried into truncation is the substring matched by the first pattern, in
\* list order, that matches the sanitized text.
C3_FirstPatternWins ==
    op = "compress" =>
        LET matching == {k \in 1..Len(OFFER_SHAPES) : Found(OFFER_SHAPES[k], TRUE, clean)}
        IN  (clean # "" /\ matching # {}) =>
                carried = Narrow(OFFER_SHAPES[CHOOSE k \in matching : \A j \in matching : k <= j],
                                 clean)

\* C4: find_sentences returns at most max_items entries, for max_items >= 0,
\* and every entry is non-empty and at most 240 characters long.
C4_HitsBounded ==
    op = "find" =>
        /\ Len(hits) <= in_max_items
        /\ \A k \in 1..Len(hits) : hits[k] # "" /\ Len(hits[k]) <= MAX_HIT_LEN

\* C5: a crawl issues at most 4 GETs that return with a status under 400, and
\* at most len(CANDIDATE_PATHS) GETs in all.
C5_FetchBudget ==
    fetched_ok <= MAX_SITE_PAGES /\ Len(requested) <= Len(CANDIDATE_PATHS)

\* C6: the status scrape_site_bundle returns is "missing" exactly when the
\* normalized website is empty, and then no GET was issued; otherwise it is
\* "unreachable" exactly when no page had 200 characters of visible text;
\* otherwise it is "ok".
C6_Status ==
    Returned =>
        /\ bundle.status \in {"missing", "unreachable", "ok"}
        /\ bundle.status = "missing" <=> normalize_url(website) = ""
        /\ bundle.status = "missing" => requested = <<>>
        /\ normalize_url(website) # "" => (bundle.status = "unreachable" <=> qualified = 0)
\* pages were fetched, all of them too thin, and the status is "unreachable"
C6_AllThin == Returned /\ bundle.status = "unreachable" /\ fetched_ok > 1

\* C7: during a crawl the title, the meta description and the og description,
\* once non-empty, keep their value, which is the first non-empty value found
\* in candidate order among the pages fetched with a status under 400.
C7_FirstFoundWins ==
    [][ /\ title # "" => title' = title
        /\ meta_description # "" => meta_description' = meta_description
        /\ og_description # "" => og_description' = og_description
        /\ title' = first_title'
        /\ meta_description' = first_meta'
        /\ og_description' = first_og' ]_vars
\* the teaser page, with a title and an og description of its own, was fetched
\* after the thin page whose title and og description are held
C7_LaterPageSeen ==
    title = "Acme Roofing" /\ og_description = "Acme" /\ meta_description = "Roof financing"

\* C8: the offers of the bundle are at most 3 entries, non-empty and pairwise
\* distinct, each the compression of one of the offer hits (of which there are
\* up to 10), in the order of the hits they are first the compression of.
C8_OffersFromHits ==
    (Returned /\ bundle.status = "ok") =>
        LET accepted == bundle.offers
            cs == mined.compressed
        IN  /\ Len(mined.offers_raw) <= 10
            /\ Len(cs) = Len(mined.offers_raw)
            /\ Len(accepted) <= MAX_OFFERS
            /\ \A i \in 1..Len(accepted) : accepted[i] # "" /\ accepted[i] \in Range(cs)
            /\ \A i, j \in 1..Len(accepted) :
                   i < j => accepted[i] # accepted[j]
                            /\ FirstAt(cs, accepted[i]) < FirstAt(cs, accepted[j])
\* three offers, the second hit a repeat of the first and the third offer the
\* compression of the fourth hit
C8_ThreeOffers ==
    /\ Returned /\ bundle.status = "ok"
    /\ bundle.offers = <<"20% off", "for a free .", "lifetime warranty">>
    /\ mined.compressed[2] = "20% off"
\* C8 with the hits limited to 3: every offer is the compression of one of the
\* first 3 offer hits.
C8_FromFirstThreeHits ==
    (Returned /\ bundle.status = "ok") =>
        \A i \in 1..Len(bundle.offers) : bundle.offers[i] \in Range(Take(mined.compressed, 3))

\* C9: the candidate paths are requested once each in list order; a GET that
\* raises or returns a status of 400 or more leaves the texts, pages_checked
\* and the captured metadata as they were, and the crawl goes on with the
\* next candidate.
C9_FailureSkipped ==
    [][ /\ requested' # requested =>
              /\ Len(requested) < Len(CANDIDATE_PATHS)
              /\ requested' = Append(requested,
                                     PageUrl(site, CANDIDATE_PATHS[Len(requested) + 1]))
        /\ FailedGet =>
              /\ UNCHANGED <<texts, pages_checked, meta_description, og_description, title>>
              /\ idx' = idx + 1
              /\ pc' = "crawl" ]_vars
\* two of three GETs failed, and the crawl, which kept a page, goes on
C9_SkippedAndWentOn ==
    pc = "crawl" /\ Len(requested) = 3 /\ fetched_ok = 1 /\ Len(texts) = 1 /\ LoopGoesOn

\* C10: for an authenticated request, whatever the site outcome, the output
\* section is built without a fault and the handler returns the record, its
\* site-derived fields empty or "no" when the bundle is not "ok".
C10_OutputBuilt ==
    (entry = "webhook" /\ pc \in {"done", "fault"}) =>
        /\ pc = "done"
        /\ output.code = 200
        /\ bundle.status # "ok" =>
              /\ output.specialOffer1 = "" /\ output.financingOptions = ""
              /\ output.waranty = "" /\ output.highlightPoint1 = ""
              /\ output.highlightsTagline = ""
              /\ output.offersFinancing = "no" /\ output.isInsured = "no"
              /\ output.isBonded = "no" /\ output.offersVirtualPresentations = "no"

====
